---- MODULE Spec2Model ----
(***************************************************************************)
(* lambda-otp: a Lambda handler that issues one-time passcodes             *)
(* (/send-otp) and verifies them (/verify-otp) against the DynamoDB table  *)
(* "OTP".  lambda.Start(handleRequest) serves one request at a time in an   *)
(* execution environment; several environments run concurrently and share  *)
(* nothing but the table and the wall clock.  A backend call (PutItem,     *)
(* Query, Publish, SendEmail) is one atomic step that either succeeds or   *)
(* returns an error.  Strings of decimal digits are sequences of digits.   *)
(***************************************************************************)
EXTENDS Integers, Sequences, FiniteSets, TLC

\* ---------------------------------------------------------------- bounds

\* Number of Lambda execution environments: requests handled concurrently.
NumProcs == 2

\* Number of requests received in a behaviour.
MaxRequests == 3

\* The clock is observed at 0..MaxEarly and at ExpirySeconds ..
\* ExpirySeconds + MaxEarly + 1: ages 0, 1, 300 and 301 with MaxEarly = 0.
MaxEarly == 0

\* ------------------------------------------------------------- constants

\* main.go:141  time.Now().Unix()-createdAt > 300
ExpirySeconds == 300

\* main.go:46  rand.Intn(1000000)
OTPRange == 1000000

\* main.go:46  "%06d"
OTPWidth == 6

Procs == 1..NumProcs

ClockValues ==
    (0..MaxEarly) \cup (ExpirySeconds..(ExpirySeconds + MaxEarly + 1))

\* Values rand.Intn is observed to return.
RandValues == {7, OTPRange - 1}

Identifiers == {"+15551234567", "user@example.com"}

defaultEmailAddress == "notifications.otp@evacrane.com"

\* ------------------------------------------------------- pure functions

RECURSIVE Digits(_)
\* Decimal digits of n >= 0, most significant first, no padding.
Digits(n) == IF n < 10 THEN <<n>> ELSE Digits(n \div 10) \o <<n % 10>>

RECURSIVE ZeroPad(_, _)
ZeroPad(s, w) == IF Len(s) >= w THEN s ELSE ZeroPad(<<0>> \o s, w)

\* fmt.Sprintf("%d", n): no width, no padding.
SprintfD(n) == Digits(n)

\* fmt.Sprintf("%06d", n)
Sprintf06d(n) == ZeroPad(Digits(n), OTPWidth)

\* generateOTP with rand.Intn returning n
generateOTP(n) == Sprintf06d(n)

\* strconv.FormatInt(n, 10) for n >= 0
FormatInt(n) == Digits(n)

RECURSIVE ParseInt(_)
\* strconv.ParseInt(s, 10, 64) on a string of decimal digits
ParseInt(s) ==
    IF Len(s) = 0 THEN 0
    ELSE 10 * ParseInt(SubSeq(s, 1, Len(s) - 1)) + s[Len(s)]

\* fmt.Sprintf("Your OTP is: %s", otp)
OTPMessage(o) == <<"Your OTP is: ", o>>

createResponse(statusCode, body) ==
    [StatusCode |-> statusCode, Body |-> body,
     Headers |-> "application/json"]

\* A handler's return value: the response and whether the Go error is non-nil.
Return(statusCode, body, failed) ==
    [resp |-> createResponse(statusCode, body), err |-> failed]

\* No return yet: the zero APIGatewayProxyResponse and a nil error.
NoReturn ==
    [resp |-> [StatusCode |-> 0, Body |-> "", Headers |-> ""], err |-> FALSE]

\* The older version of the handler (src/unnamed/part_000) builds its
\* response in place, events.APIGatewayProxyResponse{StatusCode, Body},
\* with no headers, and returns it with nil or with the backend's err.
Return000(statusCode, body, failed) ==
    [resp |-> [StatusCode |-> statusCode, Body |-> body, Headers |-> ""],
     err |-> failed]

\* One call to a backend service and whether it returned without error.
Call(api, ok) == [api |-> api, ok |-> ok]

\* ------------------------------------------------------------- requests

\* A request body: malformed JSON, or a JSON object with string fields.
Malformed == [valid |-> FALSE, fields |-> <<>>]

JSON(f) == [valid |-> TRUE, fields |-> f]

Field(body, name) ==
    IF name \in DOMAIN body.fields THEN body.fields[name] ELSE ""

\* json.Unmarshal into OTPRequest with the error dropped.
UnmarshalOTPRequestLenient(body) ==
    [err |-> FALSE,
     Identifier |-> IF body.valid THEN Field(body, "identifier") ELSE "",
     Method |-> IF body.valid THEN Field(body, "method") ELSE ""]

\* json.Unmarshal into OTPRequest: absent fields keep the zero value "".
UnmarshalOTPRequest(body) ==
    [err |-> ~body.valid,
     Identifier |-> IF body.valid THEN Field(body, "identifier") ELSE "",
     Method |-> IF body.valid THEN Field(body, "method") ELSE ""]

\* json.Unmarshal into OTPVerifyRequest
UnmarshalOTPVerifyRequest(body) ==
    [err |-> ~body.valid,
     Identifier |-> IF body.valid THEN Field(body, "identifier") ELSE "",
     OTP |-> IF body.valid THEN Field(body, "otp") ELSE <<>>]

SendBodies ==
    {Malformed}
    \cup {JSON([identifier |-> i, method |-> m]) :
            i \in Identifiers, m \in {"sms", "email", "fax"}}
    \cup {JSON([identifier |-> i]) : i \in Identifiers}

\* OTPs a client submits: the ones generated, and "7" without padding.
SubmittedOTPs == {generateOTP(n) : n \in RandValues} \cup {Digits(7)}

VerifyBodies ==
    {Malformed}
    \cup {JSON([identifier |-> i, otp |-> o]) :
            i \in Identifiers, o \in SubmittedOTPs}

\* ---------------------------------------------------------------- table

\* The table "OTP": partition key Identifier, sort key CreatedAt (N), the
\* attribute whose order ScanIndexForward refers to.  An item has no other
\* attribute than these and OTP, so its key is (Identifier, CreatedAt).
Item(id, createdAtN, o) ==
    [Identifier |-> id, CreatedAt |-> createdAtN, OTP |-> o]

SameKey(a, b) ==
    a.Identifier = b.Identifier /\ a.CreatedAt = b.CreatedAt

\* A table whose only key is Identifier: a write replaces the identifier's
\* item, so the last write to arrive is the one a Query finds.
PutItemLastWriteWins(tbl, item) ==
    {r \in tbl : r.Identifier # item.Identifier} \cup {item}

\* dynamodb PutItem: creates the item, or replaces the item with that key.
PutItem(tbl, item) == {r \in tbl : ~SameKey(r, item)} \cup {item}

Partition(tbl, id) == {r \in tbl : r.Identifier = id}

\* Query with ScanIndexForward left true: ascending order, cut to one.
QueryAscending(tbl, id) ==
    LET part == Partition(tbl, id)
    IN  IF part = {} THEN <<>>
        ELSE <<CHOOSE r \in part :
                 \A q \in part : ParseInt(r.CreatedAt) <= ParseInt(q.CreatedAt)>>

\* dynamodb Query, KeyConditionExpression "Identifier = :id",
\* ScanIndexForward false, Limit 1: the items of the partition in
\* descending sort-key order, cut to one.
Query(tbl, id) ==
    LET part == Partition(tbl, id)
    IN  IF part = {} THEN <<>>
        ELSE <<CHOOSE r \in part :
                 \A q \in part : ParseInt(q.CreatedAt) <= ParseInt(r.CreatedAt)>>

\* The expiry test one second late.
ExpiredLate(nowUnix, createdAt) == nowUnix - createdAt > ExpirySeconds + 1

\* The expiry test with >= for >.
ExpiredAtBoundary(nowUnix, createdAt) == nowUnix - createdAt >= ExpirySeconds

\* time.Now().Unix()-createdAt > 300
Expired(nowUnix, createdAt) == nowUnix - createdAt > ExpirySeconds

\* ---------------------------------------------------------------- state

VARIABLES
    now,       \* the wall clock, Unix seconds
    table,     \* the items of table "OTP"
    received,  \* the number of requests received so far
    stored,    \* the number of PutItem calls that returned without error
    frame      \* frame[p]: the handler invocation of environment p

vars == <<now, table, received, stored, frame>>

NoRequest == [Resource |-> "", Body |-> Malformed]

\* An environment that has not been invoked: every local at its zero value.
\*   pc         "idle", "PutItem", "Dispatch", "Query" or "Check"
\*   request    the APIGatewayProxyRequest being handled
\*   otpReq, otp, createdAt   sendOTP's locals (createdAt: the N attribute)
\*   putDone    "none", "ok" or "failed": the outcome of sendOTP's PutItem
\*   putNo      the number of successful writes up to and including its own
\*   dispatch   the notification call sendOTP made, or <<>>
\*   verifyReq, result        verifyOTP's locals (result: result.Items)
\*   seen, readAt   the identifier's items and the clock when Query ran
\*   readNo     the number of successful writes before Query ran
\*   checkedAt  the time.Now().Unix() verifyOTP's expiry check read
\*   returned   what handleRequest returned
\*   returned000  what handleRequest of src/unnamed/part_000 returns for
\*              the same request, clock and backend outcomes
\*   calls      the backend calls the invocation has made, in order
Fresh ==
    [pc |-> "idle",
     request |-> NoRequest,
     otpReq |-> [Identifier |-> "", Method |-> ""],
     otp |-> <<>>,
     createdAt |-> <<>>,
     putDone |-> "none",
     putNo |-> 0,
     dispatch |-> <<>>,
     verifyReq |-> [Identifier |-> "", OTP |-> <<>>],
     result |-> <<>>,
     seen |-> {},
     readAt |-> 0,
     readNo |-> 0,
     checkedAt |-> 0,
     returned |-> NoReturn,
     returned000 |-> NoReturn,
     calls |-> <<>>]

Init ==
    /\ now = 0
    /\ table = {}
    /\ received = 0
    /\ stored = 0
    /\ frame = [p \in Procs |-> Fresh]

\* -------------------------------------------------------------- actions

\* The wall clock advances.
Tick ==
    /\ \E t \in ClockValues : t > now /\ now' = t
    /\ UNCHANGED <<table, received, stored, frame>>

\* lambda.Start hands environment p its next request.
CanReceive(p) == frame[p].pc = "idle" /\ received < MaxRequests

\* handleRequest, resource "/send-otp": sendOTP up to the PutItem call
\* (unmarshal, generateOTP, build the item with time.Now().Unix()).
SendReceive(p) ==
    /\ CanReceive(p)
    /\ received' = received + 1
    /\ \E body \in SendBodies, n \in RandValues :
        LET req == UnmarshalOTPRequest(body)
            rq  == [Resource |-> "/send-otp", Body |-> body]
        IN  frame' = [frame EXCEPT ![p] =
              IF req.err
              THEN [Fresh EXCEPT
                      !.request = rq,
                      !.returned = Return(400, "Invalid request body", TRUE),
                      !.returned000 =
                          Return000(400, "Invalid request body", FALSE)]
              ELSE [Fresh EXCEPT
                      !.request = rq,
                      !.pc = "PutItem",
                      !.otpReq = [Identifier |-> req.Identifier,
                                  Method |-> req.Method],
                      !.otp = generateOTP(n),
                      !.createdAt = FormatInt(now)]]
    /\ UNCHANGED <<now, table, stored>>

\* sendOTP: dynamoClient.PutItem returns without error.
SendPutItemOK(p) ==
    /\ frame[p].pc = "PutItem"
    /\ table' = PutItem(table, Item(frame[p].otpReq.Identifier,
                                    frame[p].createdAt, frame[p].otp))
    /\ stored' = stored + 1
    /\ frame' = [frame EXCEPT
                   ![p].putDone = "ok",
                   ![p].putNo = stored + 1,
                   ![p].calls = Append(@, Call("PutItem", TRUE)),
                   ![p].pc = "Dispatch"]
    /\ UNCHANGED <<now, received>>

\* PutItem returns an error and sendOTP goes on to the switch.
SendPutItemFailIgnored(p) ==
    /\ frame[p].pc = "PutItem"
    /\ frame' = [frame EXCEPT
                   ![p].putDone = "failed",
                   ![p].calls = Append(@, Call("PutItem", FALSE)),
                   ![p].pc = "Dispatch"]
    /\ UNCHANGED <<now, table, received, stored>>

\* sendOTP calling PutItem a second time after a first error.
SendPutItemFailRetry(p) ==
    /\ frame[p].pc = "PutItem"
    /\ frame' = [frame EXCEPT
                   ![p].putDone = "failed",
                   ![p].calls = Append(@, Call("PutItem", FALSE)),
                   ![p].pc = IF frame[p].calls = <<>>
                             THEN "PutItem" ELSE "idle",
                   ![p].returned =
                       IF frame[p].calls = <<>> THEN NoReturn
                       ELSE Return(500, "Failed to store OTP", TRUE),
                   ![p].returned000 =
                       IF frame[p].calls = <<>> THEN NoReturn
                       ELSE Return000(500, "Failed to store OTP", TRUE)]
    /\ UNCHANGED <<now, table, received, stored>>

\* sendOTP: dynamoClient.PutItem returns an error.
SendPutItemFail(p) ==
    /\ frame[p].pc = "PutItem"
    /\ frame' = [frame EXCEPT
                   ![p].putDone = "failed",
                   ![p].calls = Append(@, Call("PutItem", FALSE)),
                   ![p].pc = "idle",
                   ![p].returned = Return(500, "Failed to store OTP", TRUE),
                   ![p].returned000 =
                       Return000(500, "Failed to store OTP", TRUE)]
    /\ UNCHANGED <<now, table, received, stored>>

\* The notification call the switch on otpReq.Method makes, or <<>>.
DispatchCall(m, id, o) ==
    CASE m = "sms" ->
           [Service |-> "sns", Source |-> "", Destination |-> id,
            Subject |-> "", Message |-> OTPMessage(o)]
      [] m = "email" ->
           [Service |-> "ses", Source |-> defaultEmailAddress,
            Destination |-> id, Subject |-> "Your OTP",
            Message |-> OTPMessage(o)]
      [] OTHER -> <<>>

\* What sendOTP returns after the switch: call is the notification call
\* made (<<>> for the default branch), ok whether it returned nil.
SendOutcome(call, ok) ==
    IF call = <<>>
    THEN Return(400, "Invalid method", TRUE)
    ELSE IF ok
         THEN Return(200, "OTP sent successfully", FALSE)
         ELSE Return(500, "Failed to send OTP", TRUE)

\* The same for sendOTP of src/unnamed/part_000.
SendOutcome000(call, ok) ==
    IF call = <<>>
    THEN Return000(400, "Invalid method", FALSE)
    ELSE IF ok
         THEN Return000(200, "OTP sent successfully", FALSE)
         ELSE Return000(500, "Failed to send OTP", TRUE)

\* The API the notification call goes to: sns Publish or ses SendEmail.
DispatchAPI(call) == IF call.Service = "sns" THEN "Publish" ELSE "SendEmail"

\* sendOTP: the switch on otpReq.Method and the return that follows.
SendDispatch(p) ==
    /\ frame[p].pc = "Dispatch"
    /\ LET call == DispatchCall(frame[p].otpReq.Method,
                                frame[p].otpReq.Identifier, frame[p].otp)
       IN  \E ok \in BOOLEAN :
             frame' = [frame EXCEPT
               ![p].dispatch = call,
               ![p].calls = IF call = <<>> THEN @
                            ELSE Append(@, Call(DispatchAPI(call), ok)),
               ![p].pc = "idle",
               ![p].returned = SendOutcome(call, ok),
               ![p].returned000 = SendOutcome000(call, ok)]
    /\ UNCHANGED <<now, table, received, stored>>

\* handleRequest, resource "/verify-otp": verifyOTP up to the Query call.
VerifyReceive(p) ==
    /\ CanReceive(p)
    /\ received' = received + 1
    /\ \E body \in VerifyBodies :
        LET req == UnmarshalOTPVerifyRequest(body)
            rq  == [Resource |-> "/verify-otp", Body |-> body]
        IN  frame' = [frame EXCEPT ![p] =
              IF req.err
              THEN [Fresh EXCEPT
                      !.request = rq,
                      !.returned = Return(400, "Invalid request body", TRUE),
                      !.returned000 =
                          Return000(400, "Invalid request body", FALSE)]
              ELSE [Fresh EXCEPT
                      !.request = rq,
                      !.pc = "Query",
                      !.verifyReq = [Identifier |-> req.Identifier,
                                     OTP |-> req.OTP]]]
    /\ UNCHANGED <<now, table, stored>>

\* verifyOTP: dynamoClient.Query returns without error; len(result.Items).
VerifyQueryOK(p) ==
    /\ frame[p].pc = "Query"
    /\ LET items == Query(table, frame[p].verifyReq.Identifier) IN
         frame' = [frame EXCEPT
           ![p].result = items,
           ![p].seen = Partition(table, frame[p].verifyReq.Identifier),
           ![p].readAt = now,
           ![p].readNo = stored,
           ![p].calls = Append(@, Call("Query", TRUE)),
           ![p].pc = IF Len(items) = 0 THEN "idle" ELSE "Check",
           ![p].returned = IF Len(items) = 0
                           THEN Return(400, "No OTP found", TRUE)
                           ELSE NoReturn,
           ![p].returned000 = IF Len(items) = 0
                              THEN Return000(400, "No OTP found", FALSE)
                              ELSE NoReturn]
    /\ UNCHANGED <<now, table, received, stored>>

\* verifyOTP: dynamoClient.Query returns an error.
VerifyQueryFail(p) ==
    /\ frame[p].pc = "Query"
    /\ frame' = [frame EXCEPT
                   ![p].calls = Append(@, Call("Query", FALSE)),
                   ![p].pc = "idle",
                   ![p].returned = Return(500, "Failed to retrieve OTP", TRUE),
                   ![p].returned000 =
                       Return000(500, "Failed to retrieve OTP", TRUE)]
    /\ UNCHANGED <<now, table, received, stored>>

\* verifyOTP's checks without the comparison of the submitted OTP.
VerifyOutcomeNoCompare(nowUnix, item, submitted) ==
    IF Expired(nowUnix, ParseInt(item.CreatedAt))
    THEN Return(400, "OTP expired", TRUE)
    ELSE Return(200, "OTP verified successfully", FALSE)

\* verifyOTP's checks with a mismatch message that quotes the stored OTP.
VerifyOutcomeEcho(nowUnix, item, submitted) ==
    IF Expired(nowUnix, ParseInt(item.CreatedAt))
    THEN Return(400, "OTP expired", TRUE)
    ELSE IF submitted # item.OTP
         THEN Return(400, <<"Invalid OTP, expected ", item.OTP>>, TRUE)
         ELSE Return(200, "OTP verified successfully", FALSE)

\* verifyOTP's checks with the comparison placed before the expiry test.
VerifyOutcomeCompareFirst(nowUnix, item, submitted) ==
    IF submitted # item.OTP
    THEN Return(400, "Invalid OTP", TRUE)
    ELSE IF Expired(nowUnix, ParseInt(item.CreatedAt))
         THEN Return(400, "OTP expired", TRUE)
         ELSE Return(200, "OTP verified successfully", FALSE)

\* The outcome of verifyOTP's expiry and equality checks.
VerifyOutcome(nowUnix, item, submitted) ==
    IF Expired(nowUnix, ParseInt(item.CreatedAt))
    THEN Return(400, "OTP expired", TRUE)
    ELSE IF submitted # item.OTP
         THEN Return(400, "Invalid OTP", TRUE)
         ELSE Return(200, "OTP verified successfully", FALSE)

\* An older verifyOTP without the expiry test.
VerifyOutcome000NoExpiry(nowUnix, item, submitted) ==
    IF submitted # item.OTP
    THEN Return000(400, "Invalid OTP", FALSE)
    ELSE Return000(200, "OTP verified successfully", FALSE)

\* The same checks in verifyOTP of src/unnamed/part_000.
VerifyOutcome000(nowUnix, item, submitted) ==
    IF nowUnix - ParseInt(item.CreatedAt) > ExpirySeconds
    THEN Return000(400, "OTP expired", FALSE)
    ELSE IF submitted # item.OTP
         THEN Return000(400, "Invalid OTP", FALSE)
         ELSE Return000(200, "OTP verified successfully", FALSE)

\* verifyOTP deleting the item it has just accepted (one-time use).
VerifyCheckConsuming(p) ==
    /\ frame[p].pc = "Check"
    /\ LET out == VerifyOutcome(now, frame[p].result[1],
                                frame[p].verifyReq.OTP)
       IN  /\ frame' = [frame EXCEPT
                          ![p].checkedAt = now,
                          ![p].pc = "idle",
                          ![p].returned = out,
                          ![p].returned000 =
                              VerifyOutcome000(now, frame[p].result[1],
                                               frame[p].verifyReq.OTP)]
           /\ table' = IF out.resp.StatusCode = 200
                       THEN table \ {frame[p].result[1]}
                       ELSE table
    /\ UNCHANGED <<now, received, stored>>

\* verifyOTP: the checks on result.Items[0], reading time.Now().Unix().
VerifyCheck(p) ==
    /\ frame[p].pc = "Check"
    /\ frame' = [frame EXCEPT
                   ![p].checkedAt = now,
                   ![p].pc = "idle",
                   ![p].returned = VerifyOutcome(now, frame[p].result[1],
                                                 frame[p].verifyReq.OTP),
                   ![p].returned000 =
                       VerifyOutcome000(now, frame[p].result[1],
                                        frame[p].verifyReq.OTP)]
    /\ UNCHANGED <<now, table, received, stored>>

\* handleRequest with verifyOTP as the default branch: the request's body
\* does not unmarshal, so verifyOTP returns its 400.
UnknownResourceToVerify(p) ==
    /\ CanReceive(p)
    /\ received' = received + 1
    /\ frame' = [frame EXCEPT ![p] =
                   [Fresh EXCEPT
                      !.request = [Resource |-> "/other", Body |-> Malformed],
                      !.returned = Return(400, "Invalid request body", TRUE),
                      !.returned000 =
                          Return000(400, "Invalid request body", FALSE)]]
    /\ UNCHANGED <<now, table, stored>>

\* The invocation that handleRequest's default branch has answered.
NotFoundFrame ==
    [Fresh EXCEPT
       !.request = [Resource |-> "/other", Body |-> Malformed],
       !.returned = Return(404, "Not Found", TRUE),
       !.returned000 = Return000(404, "Not Found", FALSE)]

\* handleRequest, any other resource.
UnknownResource(p) ==
    /\ CanReceive(p)
    /\ received' = received + 1
    /\ frame' = [frame EXCEPT ![p] = NotFoundFrame]
    /\ UNCHANGED <<now, table, stored>>

Next ==
    \/ Tick
    \/ \E p \in Procs : SendReceive(p)
    \/ \E p \in Procs : SendPutItemOK(p)
    \/ \E p \in Procs : SendPutItemFail(p)
    \/ \E p \in Procs : SendDispatch(p)
    \/ \E p \in Procs : VerifyReceive(p)
    \/ \E p \in Procs : VerifyQueryOK(p)
    \/ \E p \in Procs : VerifyQueryFail(p)
    \/ \E p \in Procs : VerifyCheck(p)
    \/ \E p \in Procs : UnknownResource(p)

Spec == Init /\ [][Next]_vars

\* A backend call of environment p's invocation returns, with success or
\* failure, and the handler runs on to its next call or to its return.
BackendReturns(p) ==
    \/ SendPutItemOK(p)
    \/ SendPutItemFail(p)
    \/ SendDispatch(p)
    \/ VerifyQueryOK(p)
    \/ VerifyQueryFail(p)
    \/ VerifyCheck(p)

\* The state Spec reaches from Init by UnknownResource(1): environment 1
\* has answered one request for another resource.
AfterUnknownResource ==
    /\ now = 0
    /\ table = {}
    /\ received = 1
    /\ stored = 0
    /\ frame = [p \in Procs |-> IF p = 1 THEN NotFoundFrame ELSE Fresh]

\* The behaviours from that state on in which every backend call returns.
\* Nothing is assumed of the clock or of the arrival of requests.
FairSpec ==
    /\ AfterUnknownResource
    /\ [][Next]_vars
    /\ \A p \in Procs : WF_vars(BackendReturns(p))

\* --------------------------------------------------------------- claims

\* Environment p has returned from a request of the given resource.
Returned(p, resource) ==
    /\ frame[p].pc = "idle"
    /\ frame[p].request.Resource = resource
    /\ frame[p].returned # NoReturn

Status(p) == frame[p].returned.resp.StatusCode

Body(p) == frame[p].returned.resp.Body

\* The record(s) of S with the greatest createdAt.
Newest(S) ==
    {r \in S : \A q \in S : ParseInt(q.CreatedAt) <= ParseInt(r.CreatedAt)}

\* A verifyOTP that returned after its Query succeeded and found items.
Verified(p) == Returned(p, "/verify-otp") /\ frame[p].seen # {}

\* C1: no false accept.  A Verify returns 200 "OTP verified successfully"
\* only if, when it read the store, the identifier's record with the
\* greatest createdAt carried the submitted otp and was at most 300 s old.
C1_NoFalseAccept ==
    \A p \in Procs :
        (Returned(p, "/verify-otp") /\ Status(p) = 200) =>
            /\ Body(p) = "OTP verified successfully"
            /\ \E r \in Newest(frame[p].seen) :
                 /\ r.Identifier = frame[p].verifyReq.Identifier
                 /\ r.OTP = frame[p].verifyReq.OTP
                 /\ frame[p].readAt - ParseInt(r.CreatedAt) <= 300

\* A Verify accepted the newer of two records of its identifier.
C1_Witness ==
    \E p \in Procs :
        /\ Returned(p, "/verify-otp") /\ Status(p) = 200
        /\ Cardinality(frame[p].seen) = 2

\* C2: the expiry boundary.  For the latest record of its identifier and
\* the matching otp, Verify returns 200 at every age 0..300 and 400
\* "OTP expired" at every age >= 301 (age: the clock of the check minus
\* createdAt).
C2_ExpiryBoundary ==
    \A p \in Procs :
        Verified(p) =>
            \A r \in Newest(frame[p].seen) :
                r.OTP = frame[p].verifyReq.OTP =>
                    LET age == frame[p].checkedAt - ParseInt(r.CreatedAt)
                    IN  /\ age \in 0..300 =>
                            /\ Status(p) = 200
                            /\ Body(p) = "OTP verified successfully"
                        /\ age >= 301 =>
                            /\ Status(p) = 400
                            /\ Body(p) = "OTP expired"

\* One Verify accepted the matching otp at age 300 and another was told
\* "OTP expired" at age 301.
C2_Witness ==
    \E p, q \in Procs :
        /\ Verified(p) /\ Verified(q)
        /\ \E r \in Newest(frame[p].seen) :
             /\ r.OTP = frame[p].verifyReq.OTP
             /\ frame[p].checkedAt - ParseInt(r.CreatedAt) = 300
             /\ Status(p) = 200
        /\ \E r \in Newest(frame[q].seen) :
             /\ r.OTP = frame[q].verifyReq.OTP
             /\ frame[q].checkedAt - ParseInt(r.CreatedAt) = 301
             /\ Body(q) = "OTP expired"

\* Records r1, r2 of one identifier, r1 older than r2, r2 the newest of S,
\* with different otps.
Superseded(S, r1, r2) ==
    /\ r1 \in S /\ r2 \in Newest(S)
    /\ r1.Identifier = r2.Identifier
    /\ ParseInt(r1.CreatedAt) < ParseInt(r2.CreatedAt)
    /\ r1.OTP # r2.OTP

\* C3: with two records of an identifier created at t1 < t2, Verify checks
\* only the one at t2: the otp of the t1 record, differing from the t2
\* record's, is rejected with 400.
C3_OnlyLatestChecked ==
    \A p \in Procs :
        Verified(p) =>
            \A r1, r2 \in frame[p].seen :
                (Superseded(frame[p].seen, r1, r2)
                 /\ frame[p].verifyReq.OTP = r1.OTP) => Status(p) = 400

\* A Verify rejected the otp of the t1 record while that record was
\* within its own 300 s.
C3_Witness ==
    \E p \in Procs :
        /\ Verified(p) /\ Status(p) = 400
        /\ \E r1, r2 \in frame[p].seen :
             /\ Superseded(frame[p].seen, r1, r2)
             /\ frame[p].verifyReq.OTP = r1.OTP
             /\ frame[p].checkedAt - ParseInt(r1.CreatedAt) <= 300

\* C4 as claimed: after a later Send stored a different otp, a Verify with
\* the earlier Send's otp within 300 s of the earlier record still
\* returns 200.
C4_EarlierOTPStillAccepted ==
    \A p \in Procs :
        Verified(p) =>
            \A r1, r2 \in frame[p].seen :
                (/\ Superseded(frame[p].seen, r1, r2)
                 /\ frame[p].verifyReq.OTP = r1.OTP
                 /\ frame[p].checkedAt - ParseInt(r1.CreatedAt) <= 300)
                => Status(p) = 200

\* C4 as amended: the earlier record stays stored, but a Verify with the
\* earlier Send's otp within 300 s of the earlier record is answered from
\* the later record alone: 400 "Invalid OTP".
C4_EarlierOTPSuperseded ==
    \A p \in Procs :
        Verified(p) =>
            \A r1, r2 \in frame[p].seen :
                (/\ Superseded(frame[p].seen, r1, r2)
                 /\ frame[p].verifyReq.OTP = r1.OTP
                 /\ frame[p].checkedAt - ParseInt(r1.CreatedAt) <= 300)
                => /\ Status(p) = 400
                   /\ Body(p) = "Invalid OTP"
                   /\ frame[p].result = <<r2>>

\* A Verify with the earlier Send's otp, issued in the second the earlier
\* record was created, was answered "Invalid OTP".
C4_Witness ==
    \E p \in Procs :
        /\ Verified(p) /\ Body(p) = "Invalid OTP"
        /\ \E r1, r2 \in frame[p].seen :
             /\ Superseded(frame[p].seen, r1, r2)
             /\ frame[p].verifyReq.OTP = r1.OTP
             /\ r1 \in table
             /\ frame[p].checkedAt - ParseInt(r2.CreatedAt) <= 1

\* The item the sendOTP of environment p built for PutItem.
Written(p) ==
    Item(frame[p].otpReq.Identifier, frame[p].createdAt, frame[p].otp)

\* A sendOTP of environment p whose PutItem returned without error.
Wrote(p) ==
    frame[p].request.Resource = "/send-otp" /\ frame[p].putDone = "ok"

\* A Verify of q whose Query ran after the write of the Send of p, for the
\* identifier of that Send, when no newer record of the identifier existed.
VerifiedAfter(q, p) ==
    /\ Verified(q)
    /\ frame[q].readNo >= frame[p].putNo
    /\ frame[q].verifyReq.Identifier = frame[p].otpReq.Identifier
    /\ \A r \in frame[q].seen :
         ParseInt(r.CreatedAt) <= ParseInt(frame[p].createdAt)

\* C5: the store is append-only: the number of records equals the number
\* of successful writes, also when two Sends of one identifier read the
\* same Unix second.
C5_AppendOnly == Cardinality(table) = stored

\* C6: a Send whose write succeeded and whose dispatch failed (500 "Failed
\* to send OTP") leaves its record in the store, and a later Verify with
\* its identifier and otp within 300 s, no newer record existing, returns
\* 200.
C6_DispatchFailureKeepsRecord ==
    \A p \in Procs :
        (Returned(p, "/send-otp") /\ Status(p) = 500
         /\ Body(p) = "Failed to send OTP") =>
            /\ Wrote(p)
            /\ Written(p) \in table
            /\ \A q \in Procs :
                 (/\ VerifiedAfter(q, p)
                  /\ frame[q].verifyReq.OTP = frame[p].otp
                  /\ frame[q].checkedAt - ParseInt(frame[p].createdAt) <= 300)
                 => Status(q) = 200

\* C7: a Send whose method is neither "sms" nor "email" (the field may be
\* missing) returns 400 "Invalid method" without a dispatch attempt; the
\* record it wrote persists and is the one a later Verify of the
\* identifier checks.
C7_InvalidMethodKeepsRecord ==
    \A p \in Procs :
        (Returned(p, "/send-otp") /\ Wrote(p)
         /\ frame[p].otpReq.Method \notin {"sms", "email"}) =>
            /\ Status(p) = 400 /\ Body(p) = "Invalid method"
            /\ frame[p].dispatch = <<>>
            /\ Written(p) \in table
            /\ \A q \in Procs :
                 VerifiedAfter(q, p) => frame[q].result = <<Written(p)>>

\* C8: a Send with a malformed body returns 400 "Invalid request body" in
\* the step that receives it: the store is unchanged, no OTP is generated
\* and no dispatch is attempted.
C8_MalformedSendNoEffect ==
    [][\A p \in Procs :
         (/\ frame'[p] # frame[p]
          /\ frame'[p].request.Resource = "/send-otp"
          /\ ~frame'[p].request.Body.valid) =>
            /\ table' = table /\ stored' = stored
            /\ frame'[p].pc = "idle"
            /\ frame'[p].returned = Return(400, "Invalid request body", TRUE)
            /\ frame'[p].otp = <<>>
            /\ frame'[p].putDone = "none"
            /\ frame'[p].dispatch = <<>>]_vars

\* A malformed Send was answered while the store held a record.
C8_Witness ==
    \E p \in Procs :
        /\ Returned(p, "/send-otp")
        /\ ~frame[p].request.Body.valid
        /\ Status(p) = 400
        /\ table # {}

\* C9: a Send whose store write fails returns 500 "Failed to store OTP" and
\* attempts no notification; a Send reaches the dispatch, and makes a
\* notification call, only after its own successful store write.
C9_DispatchOnlyAfterStore ==
    \A p \in Procs :
        frame[p].request.Resource = "/send-otp" =>
            /\ frame[p].putDone = "failed" =>
                 /\ frame[p].pc = "idle"
                 /\ frame[p].returned = Return(500, "Failed to store OTP", TRUE)
                 /\ frame[p].dispatch = <<>>
            /\ (frame[p].pc = "Dispatch" \/ frame[p].dispatch # <<>>) =>
                 /\ frame[p].putDone = "ok"
                 /\ frame[p].putNo \in 1..stored

\* One Send failed to store and returned 500; another made its
\* notification call.
C9_Witness ==
    \E p, q \in Procs :
        /\ Returned(p, "/send-otp") /\ frame[p].putDone = "failed"
        /\ Body(p) = "Failed to store OTP"
        /\ Returned(q, "/send-otp") /\ frame[q].dispatch # <<>>

\* C10: the notification call of a Send carries the otp that Send wrote and
\* goes to the identifier it wrote it under, and at the call that otp is
\* stored under the destination identifier.
C10_DispatchMatchesStore ==
    [][\A p \in Procs :
         (frame[p].pc = "Dispatch" /\ frame'[p].dispatch # <<>>) =>
            /\ Wrote(p)
            /\ frame'[p].dispatch.Message = OTPMessage(Written(p).OTP)
            /\ frame'[p].dispatch.Destination = Written(p).Identifier
            /\ \E r \in table :
                 /\ r.Identifier = frame'[p].dispatch.Destination
                 /\ OTPMessage(r.OTP) = frame'[p].dispatch.Message]_vars

\* A step of environment p taken on behalf of a request of the resource.
StepOf(p, resource) ==
    /\ frame'[p] # frame[p]
    /\ frame'[p].request.Resource = resource

\* C11: Verify is read-only.  Every step of a Verify request, whatever its
\* outcome, leaves the set of stored items (and the count of writes)
\* unchanged, and the request makes no notification call: the only backend
\* call in its log is Query.
C11_VerifyReadOnly ==
    [][\A p \in Procs :
         StepOf(p, "/verify-otp") =>
           /\ table' = table
           /\ stored' = stored
           /\ frame'[p].dispatch = <<>>
           /\ \A i \in DOMAIN frame'[p].calls :
                frame'[p].calls[i].api = "Query"]_vars

\* Verifies have returned 200 and 500 with items in the table.
C11_Witness ==
    /\ table # {}
    /\ \E p, q \in Procs :
         /\ Returned(p, "/verify-otp") /\ Status(p) = 200
         /\ Returned(q, "/verify-otp") /\ Status(q) = 500

\* The operation a finished request asked for.
Operation(p) ==
    CASE frame[p].request.Resource = "/send-otp" -> "Send"
      [] frame[p].request.Resource = "/verify-otp" -> "Verify"
      [] OTHER -> "Unknown"

\* The last backend call of environment p's request failed.
LastCallFailed(p) ==
    /\ frame[p].calls # <<>>
    /\ ~frame[p].calls[Len(frame[p].calls)].ok

\* The outcome kind of a finished request, read from what happened to it
\* (its body, its backend calls, the items and the clock it read) and not
\* from the response it was given.
OutcomeKind(p) ==
    LET f == frame[p] IN
    CASE Operation(p) = "Unknown" -> "UnknownOperation"
      [] Operation(p) = "Send" ->
           IF ~f.request.Body.valid THEN "MalformedRequest"
           ELSE IF f.putDone = "failed" THEN "StorageError"
           ELSE IF f.otpReq.Method \notin {"sms", "email"}
                THEN "InvalidChannel"
           ELSE IF LastCallFailed(p) THEN "DispatchError"
           ELSE "Success"
      [] Operation(p) = "Verify" ->
           IF ~f.request.Body.valid THEN "MalformedRequest"
           ELSE IF LastCallFailed(p) THEN "StorageError"
           ELSE IF f.seen = {} THEN "NotFound"
           ELSE IF \E r \in Newest(f.seen) :
                     f.checkedAt - ParseInt(r.CreatedAt) > ExpirySeconds
                THEN "Expired"
           ELSE IF \E r \in Newest(f.seen) : f.verifyReq.OTP # r.OTP
                THEN "Mismatch"
           ELSE "Success"

\* The fixed response of each operation and outcome kind: status and body.
FixedResponse(operation, kind) ==
    CASE kind = "UnknownOperation" -> <<404, "Not Found">>
      [] kind = "MalformedRequest" -> <<400, "Invalid request body">>
      [] kind = "InvalidChannel" -> <<400, "Invalid method">>
      [] kind = "DispatchError" -> <<500, "Failed to send OTP">>
      [] kind = "NotFound" -> <<400, "No OTP found">>
      [] kind = "Expired" -> <<400, "OTP expired">>
      [] kind = "Mismatch" -> <<400, "Invalid OTP">>
      [] kind = "StorageError" ->
           IF operation = "Send" THEN <<500, "Failed to store OTP">>
           ELSE <<500, "Failed to retrieve OTP">>
      [] kind = "Success" ->
           IF operation = "Send" THEN <<200, "OTP sent successfully">>
           ELSE <<200, "OTP verified successfully">>

Finished(p) == frame[p].pc = "idle" /\ frame[p].returned # NoReturn

\* C12: every error maps to a fixed status code and static message.  The
\* (status, body) pair of a finished request is the fixed pair of its
\* operation and outcome kind, a string that holds no identifier and no
\* stored or submitted OTP; so two finished requests with the same
\* operation and the same outcome kind have received identical pairs.
C12_FixedErrorResponses ==
    /\ \A p \in Procs :
         Finished(p) =>
           <<Status(p), Body(p)>> = FixedResponse(Operation(p), OutcomeKind(p))
    /\ \A p, q \in Procs :
         (/\ Finished(p) /\ Finished(q)
          /\ Operation(p) = Operation(q)
          /\ OutcomeKind(p) = OutcomeKind(q))
         => /\ Status(p) = Status(q)
            /\ Body(p) = Body(q)

\* Two Verifies that submitted different OTPs have both ended in the
\* outcome kind Mismatch.
C12_Witness ==
    \E p, q \in Procs :
      /\ Finished(p) /\ Finished(q)
      /\ Operation(p) = "Verify" /\ Operation(q) = "Verify"
      /\ OutcomeKind(p) = "Mismatch" /\ OutcomeKind(q) = "Mismatch"
      /\ frame[p].verifyReq.OTP # frame[q].verifyReq.OTP

\* C13: a request whose resource is neither "/send-otp" nor "/verify-otp"
\* returns 404 "Not Found" in the step that receives it, and that step
\* reads nothing from the table, writes nothing to it and makes no
\* notification call.
C13_UnknownResourceNotFound ==
    [][\A p \in Procs :
         (/\ frame'[p] # frame[p]
          /\ frame'[p].request.Resource \notin {"/send-otp", "/verify-otp"})
         => /\ frame'[p].pc = "idle"
            /\ frame'[p].returned.resp.StatusCode = 404
            /\ frame'[p].returned.resp.Body = "Not Found"
            /\ frame'[p].calls = <<>>
            /\ frame'[p].putDone = "none"
            /\ frame'[p].dispatch = <<>>
            /\ frame'[p].seen = {} /\ frame'[p].result = <<>>
            /\ table' = table /\ stored' = stored]_vars

\* A request for another resource has been answered with items in the table.
C13_Witness ==
    /\ table # {}
    /\ \E p \in Procs :
         /\ Finished(p)
         /\ Operation(p) = "Unknown"
         /\ Status(p) = 404

\* s is a string of exactly w decimal digits.
IsDigitString(s, w) ==
    /\ Len(s) = w
    /\ \A i \in 1..Len(s) : s[i] \in 0..9

\* Random values at the ends of the range and at every change of length.
OTPSamples ==
    {0, 7, 9, 10, 99, 100, 999, 1000, 9999, 10000, 99999, 100000, 123456,
     OTPRange - 1}

\* C14: every item in the table has an OTP of exactly 6 decimal digits,
\* and so has the OTP of every Send in flight; generateOTP maps a random
\* value n of 0..999999 to the 6 digits whose value is n, zero-padded on
\* the left (7 to "000007").
C14_SixDigitOTP ==
    /\ \A r \in table : IsDigitString(r.OTP, OTPWidth)
    /\ \A p \in Procs :
         frame[p].putDone # "none" => IsDigitString(frame[p].otp, OTPWidth)
    /\ \A n \in OTPSamples :
         /\ IsDigitString(generateOTP(n), OTPWidth)
         /\ ParseInt(generateOTP(n)) = n
    /\ generateOTP(7) = <<0, 0, 0, 0, 0, 7>>

\* The table holds "000007", generated from the random value 7.
C14_Witness ==
    \E r \in table : r.OTP = <<0, 0, 0, 0, 0, 7>>

\* The age verifyOTP's expiry check saw for the newest item it read.
AgeSeen(p) ==
    LET r == CHOOSE r \in Newest(frame[p].seen) : TRUE
    IN  frame[p].checkedAt - ParseInt(r.CreatedAt)

\* The submitted OTP differs from the OTP of the newest item read.
MismatchSeen(p) ==
    \E r \in Newest(frame[p].seen) : frame[p].verifyReq.OTP # r.OTP

\* C15: Verify decides in a fixed priority order.  A finished Verify whose
\* body parsed returns 500 "Failed to retrieve OTP" if its Query failed;
\* otherwise 400 "No OTP found" if the identifier had no item; otherwise
\* 400 "OTP expired" if the newest item's age is over 300; otherwise 400
\* "Invalid OTP" if the submitted OTP differs; otherwise 200.  An expired
\* newest item gives "OTP expired" whether or not the OTP matches.
C15_VerifyPriorityOrder ==
    \A p \in Procs :
      (Returned(p, "/verify-otp") /\ frame[p].request.Body.valid) =>
        <<Status(p), Body(p)>> =
          IF LastCallFailed(p) THEN <<500, "Failed to retrieve OTP">>
          ELSE IF frame[p].seen = {} THEN <<400, "No OTP found">>
          ELSE IF AgeSeen(p) > ExpirySeconds THEN <<400, "OTP expired">>
          ELSE IF MismatchSeen(p) THEN <<400, "Invalid OTP">>
          ELSE <<200, "OTP verified successfully">>

\* A Verify has met an expired newest item with an OTP that does not match.
C15_Witness ==
    \E p \in Procs :
      /\ Returned(p, "/verify-otp")
      /\ frame[p].seen # {}
      /\ AgeSeen(p) > ExpirySeconds
      /\ MismatchSeen(p)
      /\ Body(p) = "OTP expired"

\* The Send of p wrote at t2; the Verify of q, for the same identifier, ran
\* its Query when exactly two writes had succeeded, that of p among them,
\* and read r1, created at t1 < t2: the other write, of a Send that read
\* the clock earlier.
AfterTwoSends(p, q, r1) ==
    /\ Wrote(p)
    /\ Verified(q)
    /\ frame[q].verifyReq.Identifier = frame[p].otpReq.Identifier
    /\ frame[q].readNo = 2
    /\ frame[p].putNo <= 2
    /\ r1 \in frame[q].seen
    /\ ParseInt(r1.CreatedAt) < ParseInt(frame[p].createdAt)

\* C16: most recent wins by createdAt, not by the order in which the
\* writes arrive.  When two Sends of one identifier read clock values
\* t1 < t2 and both writes succeed, a Verify issued after both writes
\* checks the item written at t2, in whichever order the writes landed:
\* it accepts only the OTP of that item and rejects the OTP of the t1 item.
C16_MostRecentByCreatedAt ==
    \A p, q \in Procs :
      \A r1 \in frame[q].seen :
        AfterTwoSends(p, q, r1) =>
          /\ frame[q].result = <<Written(p)>>
          /\ Status(q) = 200 => frame[q].verifyReq.OTP = frame[p].otp
          /\ (frame[q].verifyReq.OTP = r1.OTP /\ r1.OTP # frame[p].otp)
               => Status(q) = 400

\* The t2 write landed first (it is write number 1), the t1 write second,
\* and the Verify accepted the OTP of the t2 item, which differs from the
\* OTP of the t1 item.
C16_Witness ==
    \E p, q \in Procs :
      \E r1 \in frame[q].seen :
        /\ AfterTwoSends(p, q, r1)
        /\ frame[p].putNo = 1
        /\ r1.OTP # frame[p].otp
        /\ Status(q) = 200

\* The number of calls of environment p's invocation to one of the APIs.
CallsTo(p, apis) ==
    Cardinality({i \in DOMAIN frame[p].calls : frame[p].calls[i].api \in apis})

\* At most one write and one notification per Send, one read per Verify,
\* no backend call otherwise; no response while the handler is running.
NothingRetried ==
    \A p \in Procs :
      /\ CallsTo(p, {"PutItem"}) <= IF Operation(p) = "Send" THEN 1 ELSE 0
      /\ CallsTo(p, {"Publish", "SendEmail"})
           <= IF Operation(p) = "Send" THEN 1 ELSE 0
      /\ CallsTo(p, {"Query"}) <= IF Operation(p) = "Verify" THEN 1 ELSE 0
      /\ frame[p].pc # "idle" => frame[p].returned = NoReturn

\* A request that has its response is not given another: the environment
\* changes next when it receives its next request.
RespondsOnce ==
    \A p \in Procs :
      (Finished(p) /\ frame'[p] # frame[p]) => received' = received + 1

\* C17: every error is terminal and nothing is retried.  A Send makes at
\* most one PutItem call and at most one notification call, a Verify at
\* most one Query call; a returned response is never replaced; and, when
\* every backend call returns, every request the handler is running ends
\* with a response.
C17_TerminalNoRetry ==
    /\ []NothingRetried
    /\ [][RespondsOnce]_vars
    /\ \A p \in Procs : (frame[p].pc # "idle") ~> Finished(p)

\* A Send has returned after its one PutItem call failed, and a Verify
\* after its one Query call failed.
C17_Witness ==
    \E p, q \in Procs :
      /\ Finished(p) /\ Operation(p) = "Send"
      /\ frame[p].calls = <<Call("PutItem", FALSE)>>
      /\ Finished(q) /\ Operation(q) = "Verify"
      /\ frame[q].calls = <<Call("Query", FALSE)>>

\* The Verify of q repeats the accepted Verify of p: it submits the same
\* identifier and OTP, its Query ran no earlier than that of p and returned
\* without error, every item of the identifier stored in between is older
\* than the item r that p accepted, and the clock its check read is within
\* 300 s of the createdAt of r.
Repeats(q, p, r) ==
    /\ p # q
    /\ Verified(p) /\ Status(p) = 200
    /\ frame[p].result = <<r>>
    /\ Returned(q, "/verify-otp")
    /\ frame[q].calls = <<Call("Query", TRUE)>>
    /\ frame[q].verifyReq = frame[p].verifyReq
    /\ frame[q].readNo >= frame[p].readNo
    /\ frame[q].readAt >= frame[p].readAt
    /\ \A s \in frame[q].seen \ frame[p].seen :
         ParseInt(s.CreatedAt) < ParseInt(r.CreatedAt)
    /\ frame[q].checkedAt - ParseInt(r.CreatedAt) <= ExpirySeconds

\* C18: a successful verification does not consume the OTP.  After a
\* Verify(identifier, otp) has returned 200, the same Verify returns 200
\* again for as long as now - createdAt <= 300 and no newer record has
\* been stored for the identifier.
C18_AcceptedAgain ==
    \A p, q \in Procs :
      \A r \in table \cup frame[p].seen :
        Repeats(q, p, r) =>
          /\ Status(q) = 200
          /\ Body(q) = "OTP verified successfully"

\* The same Verify was accepted twice, the second time at a later clock
\* value, with the accepted item still in the table.
C18_Witness ==
    \E p, q \in Procs :
      \E r \in table :
        /\ Repeats(q, p, r)
        /\ frame[q].checkedAt > frame[p].checkedAt
        /\ Status(q) = 200

\* The bodies of the three paths on which a backend call failed.
BackendFailureBodies ==
    {"Failed to store OTP", "Failed to send OTP", "Failed to retrieve OTP"}

\* C19: in src/main.go the handler returns a non-nil error exactly when
\* the status is not 200 (every 400, 404 and 500 path) and nil exactly
\* when it is 200; in src/unnamed/part_000 the error is non-nil only on
\* the three 500 paths; and for the same request, table, clock and backend
\* outcomes the two versions return the same status code and body, and
\* have returned or not returned together.
C19_ErrorReturnAndEquivalence ==
    \A p \in Procs :
      LET new == frame[p].returned
          old == frame[p].returned000
      IN  /\ (new = NoReturn) <=> (old = NoReturn)
          /\ Finished(p) =>
               /\ new.resp.StatusCode \in {200, 400, 404, 500}
               /\ new.err <=> (new.resp.StatusCode # 200)
               /\ old.err <=> (old.resp.StatusCode = 500)
               /\ old.err => old.resp.Body \in BackendFailureBodies
               /\ old.resp.StatusCode = new.resp.StatusCode
               /\ old.resp.Body = new.resp.Body

\* One request was answered 400 "OTP expired", with an error from main.go
\* and nil from part_000; another 500, with an error from both.
C19_Witness ==
    \E p, q \in Procs :
      /\ Finished(p) /\ Body(p) = "OTP expired"
      /\ frame[p].returned.err /\ ~frame[p].returned000.err
      /\ Finished(q) /\ Status(q) = 500
      /\ frame[q].returned.err /\ frame[q].returned000.err

====
